---- MODULE Spec2Model ----
(***************************************************************************)
(* A model of neural_sp's TransformerLM (neural_sp/models/lm/              *)
(* transformerlm.py): construction, the decode call with its causal mask   *)
(* and per-layer cache, decoding sessions built on it, the neural cache,   *)
(* and the AttentionMechanism exercised by test_attention_layer.py.        *)
(*                                                                         *)
(* Tensors are modelled by their structure.  A hidden vector is a sequence *)
(* of integers that spells the term computing it (a free interpretation of *)
(* the learned functions): two hidden vectors are equal here exactly when  *)
(* they are computed by the same functions from the same inputs.           *)
(*   <<0, i, tok>>             embedding of tok with positional code i     *)
(*   <<l, n>> \o q \o k1..kn   block l applied to query q, visible keys k  *)
(*   <<-1>> \o x               norm_out(x)                                 *)
(*   <<-2>> \o x               output(x), the dense projection             *)
(*   <<-3, k>>                 a vector supplied by a caller               *)
(* A tensor [B, T, d] is a sequence over the batch of sequences over time  *)
(* of hidden vectors.                                                      *)
(***************************************************************************)
EXTENDS Integers, Sequences, FiniteSets, TLC

VARIABLES args, self, call, sess, hist, attend, attn_call

vars == <<args, self, call, sess, hist, attend, attn_call>>

(***************************************************************************)
(* Bounds                                                                  *)
(***************************************************************************)
MaxLen == 3         \* longest token sequence given to decode
MaxLayers == 2      \* largest args.n_layers
MaxBatch == 2       \* largest batch size
MaxMem == 2         \* largest args.bptt / args.recog_mem_len
MaxUpdates == 3     \* neural-cache updates in one run
MaxDim == 2         \* largest encoder / decoder / attention feature size
MaxTime == 3        \* largest number of encoder time steps
Tokens == {4, 5}    \* token ids fed to the model (0..3 are reserved)
Keys == {7, 8}      \* hidden keys handed to the neural cache
Sessions == {1, 2}  \* concurrent decoding sessions

(***************************************************************************)
(* Values                                                                  *)
(***************************************************************************)
\* Python's None for an optional tensor, and a present tensor.
None == [some |-> FALSE, v |-> <<>>]
Tensor(t) == [some |-> TRUE, v |-> t]

\* cache=None, and cache=<a list>.
NoCacheArg == [given |-> FALSE, list |-> <<>>]
CacheArg(lst) == [given |-> TRUE, list |-> lst]

RECURSIVE Concat(_)
Concat(vs) == IF vs = <<>> THEN <<>> ELSE Head(vs) \o Concat(Tail(vs))

\* tensor.size(1) of a [B, T, d] tensor
Size1(t) == Len(t[1])

(***************************************************************************)
(* TransformerLM.__init__                                                  *)
(***************************************************************************)
\* lines 50-52
MemLen(a) == IF a.recog_mem_len > 0 THEN a.recog_mem_len ELSE a.bptt

\* The neural cache starting with an entry left in it.
InitCacheIdsStale == <<4>>

\* lines 62-64: the neural cache starts empty
InitCacheIds == <<>>
InitCacheKeys == <<>>
InitCacheAttn == <<>>

\* lines 77-88: exactly one of adaptive_softmax / output is not None
HasAdaptiveSoftmax(a) == a.adaptive_softmax
HasOutput(a) == ~a.adaptive_softmax

\* lines 96-105: reset_parameters reads self.output.weight and
\* self.output.bias whatever the configuration; on an object whose output is
\* None this raises AttributeError.
ResetParametersOk(has_output) == has_output

\* The object before __init__ has run.
SelfNew ==
  [phase |-> "new", n_layers |-> 0, mem_len |-> 0,
   adaptive_softmax |-> FALSE, output |-> FALSE, training |-> TRUE,
   cache_ids |-> <<>>, cache_keys |-> <<>>, cache_attn |-> <<>>,
   yy_aws |-> <<>>]

\* lines 38-90: the object __init__ leaves; phase "failed" when it raised.
Constructed(a) ==
  [phase |-> IF ResetParametersOk(HasOutput(a)) THEN "ready" ELSE "failed",
   n_layers |-> a.n_layers, mem_len |-> MemLen(a),
   adaptive_softmax |-> HasAdaptiveSoftmax(a), output |-> HasOutput(a),
   training |-> a.training,
   cache_ids |-> InitCacheIds, cache_keys |-> InitCacheKeys,
   cache_attn |-> InitCacheAttn,
   yy_aws |-> [l \in 1..a.n_layers |-> <<>>]]

(***************************************************************************)
(* Collaborators of decode                                                 *)
(***************************************************************************)
\* self.embed (line 66, used line 136): a table lookup per token
Embed(ys) == [b \in 1..Len(ys) |-> [i \in 1..Len(ys[b]) |-> <<ys[b][i]>>]]

\* self.pos_enc (line 67, used line 136): the code of position i of the tensor
\* it is given is combined with the embedding at i
PosEnc(x) == [b \in 1..Len(x) |-> [i \in 1..Len(x[b]) |-> <<0, i>> \o x[b][i]]]

\* The keys of xs a mask row lets a query see.
RECURSIVE Visible(_, _)
Visible(xs, row) ==
  IF xs = <<>> \/ row = <<>> THEN <<>>
  ELSE (IF Head(row) = 1 THEN <<Head(xs)>> ELSE <<>>) \o Visible(Tail(xs), Tail(row))

\* One block's new hidden vector for query q over the visible keys ks.
Blk(l, q, ks) == <<l, Len(ks)>> \o q \o Concat(ks)

\* TransformerDecoderBlock.forward(x, mask, cache=c), called at line 138.
\* Without a cache every position is a query over the positions its mask row
\* allows.  With a cache only the last position is a query, under the last
\* mask row, and the result is the cache with the new vector appended.  The
\* mask must have the shape of the score matrix (queries x keys).
LayerFwd(l, x, mask, c) ==
  LET bs == Len(x)
      T == Size1(x)
      fits == (c.some => Len(c.v) = bs) /\ \A b \in 1..bs : Len(mask[b]) = T
  IN IF ~fits THEN [ok |-> FALSE, out |-> <<>>, aws |-> <<>>]
     ELSE IF c.some
     THEN [ok |-> TRUE,
           out |-> [b \in 1..bs |->
                      c.v[b] \o <<Blk(l, x[b][T], Visible(x[b], mask[b][T]))>>],
           aws |-> <<bs, 1, T>>]
     ELSE [ok |-> TRUE,
           out |-> [b \in 1..bs |-> [i \in 1..T |->
                      Blk(l, x[b][i], Visible(x[b], mask[b][i]))]],
           aws |-> <<bs, T, T>>]

\* self.norm_out (line 75, used line 143)
NormOut(x) == [b \in 1..Len(x) |-> [i \in 1..Len(x[b]) |-> <<-1>> \o x[b][i]]]

\* self.output (line 86, used line 145)
Output(x) == [b \in 1..Len(x) |-> [i \in 1..Len(x[b]) |-> <<-2>> \o x[b][i]]]

(***************************************************************************)
(* TransformerLM.decode                                                    *)
(***************************************************************************)
\* lines 124-125
DefaultCache(cache, n_layers) ==
  IF ~cache.given THEN [l \in 1..n_layers |-> None] ELSE cache.list

\* MaskSide with the cached length ignored.
MaskSideOfInput(ys, cache, incremental) == Size1(ys)

\* lines 128-130
MaskSide(ys, cache, incremental) ==
  IF incremental /\ cache[1].some THEN Size1(cache[1].v) + 1 ELSE Size1(ys)

\* CausalMask without the tril: every position sees every position.
CausalMaskFull(bs, ylen) ==
  [b \in 1..bs |-> [i \in 1..ylen |-> [j \in 1..ylen |-> 1]]]

\* lines 131-133: ones, tril(diagonal=0), repeated over the batch
CausalMask(bs, ylen) ==
  [b \in 1..bs |-> [i \in 1..ylen |-> [j \in 1..ylen |-> IF j <= i THEN 1 ELSE 0]]]

\* NewCacheEntry without the test of incremental.
NewCacheEntryAlways(incremental, old, out) == Tensor(out)

\* NewCacheEntry keeping only the newest position, out[:, -1:].
NewCacheEntryLast(incremental, old, out) ==
  IF incremental THEN Tensor([b \in 1..Len(out) |-> <<out[b][Len(out[b])]>>]) ELSE old

\* lines 139-140: old is new_cache[l] before the statement
NewCacheEntry(incremental, old, out) == IF incremental THEN Tensor(out) ELSE old

\* lines 141-142
YyAws(training, old, aws) == IF ~training THEN aws ELSE old

\* NewCacheTarget when new_cache is the caller's list itself.
NewCacheTargetAlias(arg, fresh) == arg

\* line 135: new_cache is bound to a list of its own; "arg" names the
\* caller's list and "fresh" the newly made one.
NewCacheTarget(arg, fresh) == fresh

\* lines 137-142: the loop over the layers from layer l on.  st carries out,
\* the two lists and the yy_aws_layer attributes; the loop stops where a layer
\* raises.
RECURSIVE RunLayers(_, _, _, _, _, _, _)
RunLayers(l, n_layers, mask, cache, incremental, training, st) ==
  IF l > n_layers THEN st
  ELSE LET r == LayerFwd(l, st.out, mask, cache[l])
           tgt == NewCacheTarget("arg", "fresh")
       IN IF ~r.ok THEN [st EXCEPT !.ok = FALSE]
          ELSE RunLayers(l + 1, n_layers, mask, cache, incremental, training,
                 [st EXCEPT !.out = r.out,
                            !.lists[tgt][l] = NewCacheEntry(incremental, @, r.out),
                            !.yy_aws[l] = YyAws(training, @, r.aws)])

\* lines 144-147
Logits(adaptive_softmax, out) ==
  IF ~adaptive_softmax THEN Output(out) ELSE out

\* lines 107-149.  The result: status "ok" with the returned triple, or
\* "error"; cache_arg is the caller's list as the call leaves it and self_after
\* the model object as the call leaves it.
Decode(slf, ys, cache_arg, incremental) ==
  LET cache == DefaultCache(cache_arg, slf.n_layers)
      bs == Len(ys)
      ylen == MaskSide(ys, cache, incremental)
      causal_mask == CausalMask(bs, ylen)
      tgt == NewCacheTarget("arg", "fresh")
      lists0 == [o \in {"arg", "fresh"} |->
                   IF o = tgt THEN [l \in 1..slf.n_layers |-> None] ELSE cache_arg.list]
      st == RunLayers(1, slf.n_layers, causal_mask, cache, incremental, slf.training,
              [ok |-> TRUE, out |-> PosEnc(Embed(ys)), lists |-> lists0,
               yy_aws |-> slf.yy_aws])
      out == NormOut(st.out)
  IN [status |-> IF st.ok THEN "ok" ELSE "error",
      logits |-> IF st.ok THEN Logits(slf.adaptive_softmax, out) ELSE <<>>,
      out |-> IF st.ok THEN out ELSE <<>>,
      new_cache |-> IF st.ok THEN st.lists[tgt] ELSE <<>>,
      mask |-> causal_mask,
      cache_arg |-> IF cache_arg.given THEN CacheArg(st.lists["arg"]) ELSE cache_arg,
      self_after |-> [slf EXCEPT !.yy_aws = st.yy_aws]]

(***************************************************************************)
(* Callers' inputs                                                         *)
(***************************************************************************)
\* Token rows of length n.
RECURSIVE Rows(_)
Rows(n) ==
  IF n = 0 THEN {<<>>}
  ELSE {<<t>> \o r : t \in Tokens, r \in Rows(n - 1)}

\* A batch of bs equal rows.
Batch(bs, row) == [b \in 1..bs |-> row]

\* A caller-made tensor [bs, k, d_model].
Given(bs, k) == Tensor([b \in 1..bs |-> [j \in 1..k |-> <<-3, j>>]])

\* Every list of n_layers entries, each None or a caller-made tensor of
\* 1..MaxLen vectors.
RECURSIVE GivenLists(_, _)
GivenLists(n, bs) ==
  IF n = 0 THEN {<<>>}
  ELSE {<<e>> \o r : e \in {None} \cup {Given(bs, k) : k \in 1..MaxLen},
                      r \in GivenLists(n - 1, bs)}

ArgsSet ==
  [n_layers : 1..MaxLayers, adaptive_softmax : BOOLEAN,
   bptt : 1..MaxMem, recog_mem_len : 0..MaxMem, training : BOOLEAN]

NoCall ==
  [status |-> "none", ys |-> <<>>, cache |-> NoCacheArg, incremental |-> FALSE,
   logits |-> <<>>, out |-> <<>>, new_cache |-> <<>>, mask |-> <<>>,
   cache_after |-> NoCacheArg]

\* What a caller holds after decode(ys, cache=cache, incremental=incremental).
CallRecord(ys, cache, incremental, r) ==
  [status |-> r.status, ys |-> ys, cache |-> cache, incremental |-> incremental,
   logits |-> r.logits, out |-> r.out, new_cache |-> r.new_cache, mask |-> r.mask,
   cache_after |-> r.cache_arg]

NoSession ==
  [toks |-> <<>>, cache |-> NoCacheArg, status |-> "idle", feed |-> "prefix",
   logits |-> <<>>, new_cache |-> <<>>]

NoAttend ==
  [phase |-> "new", attention_type |-> "", encoder_num_units |-> 0,
   decoder_num_units |-> 0, attention_dim |-> 0, sharpening_factor |-> 0,
   sigmoid_smoothing |-> FALSE]

NoAttnCall ==
  [status |-> "none", encoder_outputs |-> <<>>, decoder_state_step |-> <<>>,
   context_vector |-> <<>>, attention_weights_step |-> <<>>]

(***************************************************************************)
(* Construction and single decode calls                                    *)
(***************************************************************************)
\* The neural-cache window plays no part in construction or decode: its
\* arguments vary in SpecCache and are fixed elsewhere.
Init ==
  /\ args \in {a \in ArgsSet : a.bptt = 1 /\ a.recog_mem_len = 0}
  /\ self = SelfNew
  /\ call = NoCall
  /\ sess = [s \in Sessions |-> NoSession]
  /\ hist = <<>>
  /\ attend = NoAttend
  /\ attn_call = NoAttnCall

\* TransformerLM(args)
Construct ==
  /\ self.phase = "new"
  /\ self' = Constructed(args)
  /\ UNCHANGED <<args, call, sess, hist, attend, attn_call>>

\* model.decode(ys, cache=cache, incremental=incremental) by any caller, on
\* any batch and any list of n_layers cache entries.  A run records one such
\* call: decode reads nothing of the object that an earlier call wrote.
DecodeCall ==
  /\ self.phase = "ready"
  /\ call.status = "none"
  /\ \E bs \in 1..MaxBatch, n \in 1..MaxLen, incremental \in BOOLEAN :
       \E row \in Rows(n) :
         \E cache \in {NoCacheArg} \cup {CacheArg(c) : c \in GivenLists(self.n_layers, bs)} :
           LET r == Decode(self, Batch(bs, row), cache, incremental)
           IN /\ call' = CallRecord(Batch(bs, row), cache, incremental, r)
              /\ self' = r.self_after
  /\ UNCHANGED <<args, sess, hist, attend, attn_call>>

Next == Construct \/ DecodeCall

Spec == Init /\ [][Next]_vars

(***************************************************************************)
(* The neural cache                                                        *)
(***************************************************************************)
\* The last n elements of q.
LastN(q, n) == IF Len(q) <= n THEN q ELSE SubSeq(q, Len(q) - n + 1, Len(q))

\* update(hidden, token_id): append to the ids and the keys, then evict the
\* oldest entries beyond mem_len.
NeuralCacheUpdate(slf, key, tok) ==
  [slf EXCEPT !.cache_ids = LastN(Append(@, tok), slf.mem_len),
              !.cache_keys = LastN(Append(@, key), slf.mem_len),
              !.cache_attn = LastN(@, slf.mem_len)]

\* blend(query, base_distribution) computes one weight per cached key and
\* keeps the weight vector (here: its length) in cache_attn.
NeuralCacheBlend(slf) ==
  [slf EXCEPT !.cache_attn = LastN(Append(@, Len(slf.cache_keys)), slf.mem_len)]

\* An update by the decoding loop, at most maxn of them in a run.
CacheUpdate(maxn, keys, toks) ==
  /\ self.phase = "ready"
  /\ Len(hist) < maxn
  /\ \E key \in keys, tok \in toks :
       /\ self' = NeuralCacheUpdate(self, key, tok)
       /\ hist' = Append(hist, <<key, tok>>)
  /\ UNCHANGED <<args, call, sess, attend, attn_call>>

\* A query against the neural cache, once there is something to weigh.
CacheBlend ==
  /\ self.phase = "ready"
  /\ self.cache_keys # <<>>
  /\ self' = NeuralCacheBlend(self)
  /\ UNCHANGED <<args, call, sess, hist, attend, attn_call>>

\* The language model scoring one token, model.decode(ys) with ys [1, 1].
ScoreToken ==
  /\ self.phase = "ready"
  /\ \E tok \in Tokens :
       LET r == Decode(self, <<<<tok>>>>, NoCacheArg, FALSE)
       IN /\ call' = CallRecord(<<<<tok>>>>, NoCacheArg, FALSE, r)
          /\ self' = r.self_after
  /\ UNCHANGED <<args, sess, hist, attend, attn_call>>

InitCache ==
  /\ args \in {a \in ArgsSet : ~a.adaptive_softmax /\ ~a.training /\ a.n_layers = 1}
  /\ self = Constructed(args)
  /\ call = NoCall
  /\ sess = [s \in Sessions |-> NoSession]
  /\ hist = <<>>
  /\ attend = NoAttend
  /\ attn_call = NoAttnCall

NextCache == CacheUpdate(MaxUpdates, Keys, Tokens) \/ CacheBlend \/ ScoreToken

SpecCache == InitCache /\ [][NextCache]_vars

(***************************************************************************)
(* Decoding sessions: each owns its per-layer cache and calls decode with  *)
(* incremental=True, then takes the returned cache as its own.  A session  *)
(* feeds either the tokens so far (ys [B, L] with a cache of L-1, as       *)
(* decode's docstring has it) or the newest token alone.                   *)
(***************************************************************************)
Feeds == {"prefix", "single"}

InitSess ==
  /\ args \in {a \in ArgsSet : /\ ~a.adaptive_softmax /\ ~a.training
                                /\ a.bptt = 1 /\ a.recog_mem_len = 0}
  /\ self = Constructed(args)
  /\ call = NoCall
  /\ sess \in [Sessions -> {[NoSession EXCEPT !.feed = f] : f \in Feeds}]
  /\ hist = <<>>
  /\ attend = NoAttend
  /\ attn_call = NoAttnCall

\* Session s decodes one more token.
Step(s) ==
  /\ sess[s].status = "idle"
  /\ Len(sess[s].toks) < MaxLen
  /\ \E tok \in Tokens :
       LET toks == Append(sess[s].toks, tok)
           ys == IF sess[s].feed = "prefix" THEN toks ELSE <<tok>>
           r == Decode(self, <<ys>>, sess[s].cache, TRUE)
       IN /\ sess' = [sess EXCEPT ![s] =
                        [@ EXCEPT !.toks = toks,
                                  !.status = IF r.status = "ok" THEN "returned" ELSE "error",
                                  !.cache = r.cache_arg,
                                  !.logits = r.logits,
                                  !.new_cache = r.new_cache]]
          /\ self' = r.self_after
  /\ UNCHANGED <<args, call, hist, attend, attn_call>>

\* Session s takes the returned cache as its cache for the next call.
Adopt(s) ==
  /\ sess[s].status = "returned"
  /\ sess' = [sess EXCEPT ![s] =
                [@ EXCEPT !.status = "idle", !.cache = CacheArg(sess[s].new_cache),
                          !.logits = <<>>, !.new_cache = <<>>]]
  /\ UNCHANGED <<args, self, call, hist, attend, attn_call>>

\* The neural cache registers an entry between steps.
SessCacheUpdate == CacheUpdate(1, {7}, {4})

NextSess == (\E s \in Sessions : Step(s) \/ Adopt(s)) \/ SessCacheUpdate

SpecSess == InitSess /\ [][NextSess]_vars

\* One non-incremental decode call over a whole sequence.
NonIncremental(toks) == Decode(self, <<toks>>, NoCacheArg, FALSE)

\* The cache a session holds after t steps when it runs alone, feeding the
\* first t tokens one step at a time.
RECURSIVE CacheAlone(_, _, _)
CacheAlone(slf, toks, t) ==
  IF t = 0 THEN NoCacheArg
  ELSE CHOOSE after \in
         {CacheArg(Decode(slf, <<SubSeq(toks, 1, t)>>, before, TRUE).new_cache) :
            before \in {CacheAlone(slf, toks, t - 1)}} : TRUE

(***************************************************************************)
(* AttentionMechanism, at the level of tensor shapes.  A shape is the       *)
(* tuple of a tensor's dimensions; <<>> is the result of an operation       *)
(* whose operands do not fit.                                              *)
(***************************************************************************)
BaseTypes ==
  {"bahdanau_content", "dot_product", "luong_dot", "luong_general", "luong_concat"}
ExtendedTypes ==
  {"normed_bahdanau_content", "scaled_luong_dot", "location", "hybrid"}
EnumeratedTypes == BaseTypes \cup ExtendedTypes
AttentionTypes == EnumeratedTypes \cup {"unknown_variant"}

\* A learned linear map from n_in to n_out features, on the last dimension.
Linear(x, n_in, n_out) ==
  IF x # <<>> /\ x[Len(x)] = n_in THEN [x EXCEPT ![Len(x)] = n_out] ELSE <<>>

\* Batched matrix product of [b, n, m] and [b, m, p].
Bmm(x, y) ==
  IF Len(x) = 3 /\ Len(y) = 3 /\ x[1] = y[1] /\ x[3] = y[2]
  THEN <<x[1], x[2], y[3]>> ELSE <<>>

\* Exchange of dimensions i and j.
Transpose(x, i, j) ==
  IF x = <<>> THEN <<>> ELSE [x EXCEPT ![i] = x[j], ![j] = x[i]]

\* Removal of dimension i when it is 1.
Squeeze(x, i) ==
  IF x = <<>> THEN <<>>
  ELSE IF x[i] = 1 THEN SubSeq(x, 1, i - 1) \o SubSeq(x, i + 1, Len(x)) ELSE x

\* A new dimension of 1 at place i.
Unsqueeze(x, i) ==
  IF x = <<>> THEN <<>> ELSE SubSeq(x, 1, i - 1) \o <<1>> \o SubSeq(x, i, Len(x))

\* Elementwise sum with broadcasting of dimensions of 1.
BroadcastAdd(x, y) ==
  IF x # <<>> /\ Len(x) = Len(y)
     /\ \A k \in 1..Len(x) : x[k] = y[k] \/ x[k] = 1 \/ y[k] = 1
  THEN [k \in 1..Len(x) |-> IF x[k] = 1 THEN y[k] ELSE x[k]] ELSE <<>>

\* Concatenation on the last dimension, x expanded over dimension 2 of y.
ConcatFeatures(x, y) ==
  IF Len(x) = 3 /\ Len(y) = 3 /\ x[1] = y[1] /\ x[2] \in {1, y[2]}
  THEN <<y[1], y[2], x[3] + y[3]>> ELSE <<>>

\* The scorers: the shape of the unnormalized scores for keys [B, T, E] and
\* query [B, 1, D], one score per key.
Scores(a, keys, query) ==
  LET E == a.encoder_num_units
      D == a.decoder_num_units
      A == a.attention_dim
  IN CASE a.attention_type \in {"dot_product", "luong_dot"} ->
            Squeeze(Bmm(keys, Transpose(query, 2, 3)), 3)
       [] a.attention_type = "luong_general" ->
            Squeeze(Bmm(Linear(keys, E, D), Transpose(query, 2, 3)), 3)
       [] a.attention_type = "luong_concat" ->
            Squeeze(Linear(Linear(ConcatFeatures(query, keys), D + E, A), A, 1), 3)
       [] a.attention_type = "bahdanau_content" ->
            Squeeze(Linear(BroadcastAdd(Linear(query, D, A), Linear(keys, E, A)), A, 1), 3)
       [] OTHER -> <<>>

\* Sharpening and normalization (softmax over time, or sigmoid) keep the
\* shape of the scores.
Normalize(a, e) == e

\* Aggregate with the time dimension summed away and no dimension of 1 kept.
AggregateSum(aw, encoder_outputs) ==
  IF aw = <<>> THEN <<>> ELSE <<encoder_outputs[1], encoder_outputs[3]>>

\* The weighted sum of the encoder outputs over time.
Aggregate(aw, encoder_outputs) == Bmm(Unsqueeze(aw, 2), encoder_outputs)

\* AttendConstructed with every tag it does not know taken as the default
\* scorer.
AttendConstructedDefault(cfg) ==
  [cfg EXCEPT !.phase =
     IF cfg.attention_type \in ExtendedTypes THEN "UnsupportedVariantError"
     ELSE IF /\ cfg.attention_type \in {"dot_product", "luong_dot"}
             /\ cfg.encoder_num_units # cfg.decoder_num_units
          THEN "ConfigurationError"
     ELSE "ready"]

\* AttentionMechanism(...): the object the constructor leaves, or the error
\* it raises.
AttendConstructed(cfg) ==
  [cfg EXCEPT !.phase =
     IF cfg.attention_type \notin EnumeratedTypes THEN "ConfigurationError"
     ELSE IF cfg.attention_type \in ExtendedTypes THEN "UnsupportedVariantError"
     ELSE IF /\ cfg.attention_type \in {"dot_product", "luong_dot"}
             /\ cfg.encoder_num_units # cfg.decoder_num_units
          THEN "ConfigurationError"
     ELSE "ready"]

\* attend(encoder_outputs, decoder_state_step, attention_weights_step) on
\* shapes [B, T, E], [1, B, D] and [B, T].
Attend(a, encoder_outputs, decoder_state_step, attention_weights_step) ==
  LET fits == /\ encoder_outputs[3] = a.encoder_num_units
              /\ decoder_state_step[3] = a.decoder_num_units
              /\ decoder_state_step[2] = encoder_outputs[1]
              /\ attention_weights_step = <<encoder_outputs[1], encoder_outputs[2]>>
      aw == Normalize(a, Scores(a, encoder_outputs, Transpose(decoder_state_step, 1, 2)))
  IN IF ~fits
     THEN [status |-> "ShapeMismatchError", encoder_outputs |-> encoder_outputs,
           decoder_state_step |-> decoder_state_step,
           context_vector |-> <<>>, attention_weights_step |-> <<>>]
     ELSE [status |-> "ok", encoder_outputs |-> encoder_outputs,
           decoder_state_step |-> decoder_state_step,
           context_vector |-> Aggregate(aw, encoder_outputs),
           attention_weights_step |-> aw]

AttendConfigs ==
  [phase : {"new"}, attention_type : AttentionTypes,
   encoder_num_units : 1..MaxDim, decoder_num_units : 1..MaxDim,
   attention_dim : 1..MaxDim, sharpening_factor : {2},
   sigmoid_smoothing : BOOLEAN]

InitAttn ==
  /\ args \in {a \in ArgsSet : /\ ~a.adaptive_softmax /\ ~a.training /\ a.n_layers = 1
                                /\ a.bptt = 1 /\ a.recog_mem_len = 0}
  /\ self = SelfNew
  /\ call = NoCall
  /\ sess = [s \in Sessions |-> NoSession]
  /\ hist = <<>>
  /\ attend \in AttendConfigs
  /\ attn_call = NoAttnCall

AttendConstruct ==
  /\ attend.phase = "new"
  /\ attend' = AttendConstructed(attend)
  /\ UNCHANGED <<args, self, call, sess, hist, attn_call>>

AttendCall ==
  /\ attend.phase = "ready"
  /\ \E B \in 1..MaxBatch, T \in 1..MaxTime, E \in 1..MaxDim, D \in 1..MaxDim :
       attn_call' = Attend(attend, <<B, T, E>>, <<1, B, D>>, <<B, T>>)
  /\ UNCHANGED <<args, self, call, sess, hist, attend>>

NextAttn == AttendConstruct \/ AttendCall

SpecAttn == InitAttn /\ [][NextAttn]_vars

(***************************************************************************)
(* Claims about single decode calls (specification Spec)                   *)
(***************************************************************************)
\* The side the claim gives the mask of the recorded call.
ExpectedSide ==
  IF call.incremental /\ call.cache.given /\ call.cache.list[1].some
  THEN Len(call.cache.list[1].v[1]) + 1
  ELSE Len(call.ys[1])

\* C2: in every decode call the causal mask is square with side L, L being
\* the cached length + 1 in an incremental call with a cache and the input
\* length otherwise; position i may attend to j iff j <= i; and the mask is
\* the same for every batch element.
C2_CausalMask ==
  call.status # "none" =>
    /\ Len(call.mask) = Len(call.ys)
    /\ \A b \in 1..Len(call.mask) :
         /\ Len(call.mask[b]) = ExpectedSide
         /\ \A i \in 1..ExpectedSide :
              /\ Len(call.mask[b][i]) = ExpectedSide
              /\ \A j \in 1..ExpectedSide : (call.mask[b][i][j] = 1) <=> (j <= i)
         /\ call.mask[b] = call.mask[1]

\* An incremental call on a batch of two with a cached length that differs
\* from the input length - 1.
C2_Witness ==
  /\ call.status # "none" /\ call.incremental /\ Len(call.ys) = 2
  /\ call.cache.given /\ call.cache.list[1].some
  /\ Len(call.cache.list[1].v[1]) = 2 /\ Len(call.ys[1]) = 1
  /\ Len(call.mask[2]) = 3

\* The lengths of the tensors a cache list holds.
EntryLengths(lst) == {Len(lst[l].v[1]) : l \in {k \in 1..Len(lst) : lst[k].some}}

\* C5: a decode call given a cache whose entry lengths differ across layers,
\* or an incremental call given a cache whose length is not the number of
\* steps already decoded (the input length - 1), ends in an error.
C5_CacheConsistencyError ==
  (/\ call.status # "none"
   /\ call.cache.given
   /\ \/ Cardinality(EntryLengths(call.cache.list)) > 1
      \/ /\ call.incremental
         /\ EntryLengths(call.cache.list) # {}
         /\ EntryLengths(call.cache.list) # {Len(call.ys[1]) - 1})
  => call.status = "error"

\* C8: a decoder configured with adaptive_softmax is constructed successfully
\* and its decode calls return the normalized hidden state as first result;
\* without adaptive_softmax the first result is the dense projection of it.
C8_AdaptiveSoftmax ==
  /\ (self.phase # "new" /\ args.adaptive_softmax) => self.phase = "ready"
  /\ call.status = "ok" =>
       call.logits = IF args.adaptive_softmax THEN call.out ELSE Output(call.out)

\* C9: every decode call that returns gives a cache list of n_layers entries,
\* each populated (with that layer's output, the last layer's being what
\* norm_out is applied to) iff the call was incremental.
C9_NewCache ==
  call.status = "ok" =>
    /\ Len(call.new_cache) = self.n_layers
    /\ \A l \in 1..self.n_layers : call.new_cache[l].some <=> call.incremental
    /\ call.incremental => NormOut(call.new_cache[self.n_layers].v) = call.out

\* A non-incremental call given a populated cache returns.
C9_Witness ==
  /\ call.status = "ok" /\ ~call.incremental /\ Len(call.new_cache) = 2
  /\ call.cache.given /\ call.cache.list[1].some /\ call.cache.list[2].some

CacheGrowsByOne(f) ==
  \A s \in Sessions :
    sess[s].feed = f =>
      /\ sess[s].status # "error"
      /\ sess[s].status = "returned" =>
           \A l \in 1..self.n_layers :
             LET e == sess[s].new_cache[l]
                 t == Len(sess[s].toks)
             IN /\ e.some
                /\ Len(e.v[1]) = t
                /\ sess[s].cache.given =>
                     /\ sess[s].cache.list[l].some
                     /\ SubSeq(e.v[1], 1, t - 1) = sess[s].cache.list[l].v[1]
                /\ \A i, j \in 1..t : i # j => e.v[1][i] # e.v[1][j]

C10_DecodeFrame ==
  [][\A s \in Sessions :
       (sess[s].status = "idle" /\ sess'[s].status \in {"returned", "error"}) =>
         /\ sess'[s].cache = sess[s].cache
         /\ self'.cache_ids = self.cache_ids
         /\ self'.cache_keys = self.cache_keys
         /\ self'.cache_attn = self.cache_attn
         /\ \A o \in Sessions \ {s} : sess'[o] = sess[o]
         /\ (sess[s].feed = "prefix" /\ sess'[s].status = "returned") =>
              CacheArg(sess'[s].new_cache)
                = CacheAlone(self, sess'[s].toks, Len(sess'[s].toks))]_vars

\* Two sessions in the middle of their sequences, the neural cache not empty.
C10_Witness ==
  /\ sess[1].feed = "prefix" /\ sess[1].status = "returned" /\ Len(sess[1].toks) = 2
  /\ sess[2].feed = "prefix" /\ sess[2].status = "idle" /\ sess[2].toks = <<5>>
  /\ sess[2].cache.given /\ sess[1].toks = <<4, 4>>
  /\ self.cache_ids # <<>>

(***************************************************************************)
(* Claims about the neural cache (specification SpecCache)                 *)
(***************************************************************************)
\* Component i of every pair of q.
Column(q, i) == [k \in 1..Len(q) |-> q[k][i]]

\* C4: after any sequence of neural-cache updates and decode calls the
\* number of entries (cache_ids and cache_keys, in parallel) never exceeds
\* mem_len, and what remains are the most recently inserted entries, in
\* insertion order.
C4_NeuralCacheFIFO ==
  /\ Len(self.cache_ids) <= self.mem_len
  /\ Len(self.cache_keys) = Len(self.cache_ids)
  /\ self.cache_keys = LastN(Column(hist, 1), self.mem_len)
  /\ self.cache_ids = LastN(Column(hist, 2), self.mem_len)

\* An update beyond a window of two, and a decode call.
C4_Witness ==
  /\ Len(hist) = 3 /\ self.mem_len = 2 /\ args.bptt = 1
  /\ call.status = "ok" /\ self.cache_ids = <<4, 5>>

(***************************************************************************)
(* Claims about AttentionMechanism (specification SpecAttn)                *)
(***************************************************************************)
\* C6: for every supported attention_type, batch size and time length, a
\* call on encoder outputs [batch, time, encoder_dim] returns a context
\* vector [batch, 1, encoder_dim] and attention weights [batch, time].
C6_AttentionShapes ==
  /\ (attend.phase # "new" /\ attend.attention_type \in BaseTypes
        /\ attend.encoder_num_units = attend.decoder_num_units)
       => attend.phase = "ready"
  /\ attn_call.status # "none" =>
       LET x == attn_call.encoder_outputs
       IN IF /\ x[3] = attend.encoder_num_units
             /\ attn_call.decoder_state_step[3] = attend.decoder_num_units
          THEN /\ attn_call.status = "ok"
               /\ attn_call.context_vector = <<x[1], 1, x[3]>>
               /\ attn_call.attention_weights_step = <<x[1], x[2]>>
          ELSE attn_call.status = "ShapeMismatchError"

\* A call with a batch of two over three time steps, encoder and decoder
\* sizes differing.
C6_Witness ==
  /\ attn_call.status = "ok" /\ attend.attention_type = "luong_concat"
  /\ attn_call.encoder_outputs = <<2, 3, 2>> /\ attend.decoder_num_units = 1

====
